---- MODULE Spec2Model ----
(***************************************************************************)
(* BitBot: the query routing and response composition of the two variants *)
(* of the assistant, app.py (CLI, Hugging Face + CoinGecko) and           *)
(* streamlit_app.py (browser UI, Groq), and the synthetic price history   *)
(* generator used for charts.                                             *)
(*                                                                         *)
(* Text is a sequence of one-character strings, so that Python's          *)
(* substring test (`in`), lower(), title() and strip() are computed and   *)
(* not assumed.  Text the program only emits (never inspects) is a        *)
(* sequence of pieces: literal pieces of an f-string are whole strings,   *)
(* interpolated values are character sequences.  Non-ASCII symbols are    *)
(* written by code point ("U+20BF" is the bitcoin sign).                  *)
(*                                                                         *)
(* Money is counted in cents and percentages in hundredths of a percent,  *)
(* which is exact for every number of the source.                         *)
(***************************************************************************)
EXTENDS Integers, Sequences, FiniteSets, TLC

VARIABLES
    unit,          \* which entry point is exercised (one program run each)
    pc,            \* position inside that entry point
    input,         \* the user text of the current call / turn
    response,      \* what the routed call returned: [raised, value]
    llmLog,        \* gateway calls of the current call: <<[outcome, result]>>
    netLog,        \* price fetches of the current call (app.py): <<coin id>>
    crypto_db,     \* app.py: the static knowledge base, in declaration order
    chat_history,  \* app.py: the module-level chat history buffer
    messages,      \* streamlit_app.py: st.session_state.messages
    turns,         \* user turns taken so far in a UI loop
    hist,          \* generate_price_history: its locals and its result
    rendered       \* streamlit_app.py: the charts of the last display pass

vars == <<unit, pc, input, response, llmLog, netLog, crypto_db, chat_history,
          messages, turns, hist, rendered>>

(***************************************************************************)
(* Bounds of the model.                                                    *)
(***************************************************************************)
\* words per generated input text
MaxWords == 2
\* user turns per UI loop run
MaxTurns == 2
\* sustainability scores range over 0..MaxScore
MaxScore == 2
\* seeds of the pseudo-random source are 0..MaxSeed
MaxSeed == 7
\* "today" ranges over DayBase..DayBase+MaxDayOffset
MaxDayOffset == 1

(***************************************************************************)
(* Characters and Python's string methods.                                 *)
(***************************************************************************)
UpperLetters == <<"A","B","C","D","E","F","G","H","I","J","K","L","M",
                  "N","O","P","Q","R","S","T","U","V","W","X","Y","Z">>
LowerLetters == <<"a","b","c","d","e","f","g","h","i","j","k","l","m",
                  "n","o","p","q","r","s","t","u","v","w","x","y","z">>

\* the two case mappings, as tables
ToLower ==
    [c \in {UpperLetters[i] : i \in 1..26} |->
        LowerLetters[CHOOSE i \in 1..26 : UpperLetters[i] = c]]
ToUpper ==
    [c \in {LowerLetters[i] : i \in 1..26} |->
        UpperLetters[CHOOSE i \in 1..26 : LowerLetters[i] = c]]

IsUpper(c) == c \in DOMAIN ToLower
IsLower(c) == c \in DOMAIN ToUpper
IsLetter(c) == IsUpper(c) \/ IsLower(c)

LowerChar(c) == IF IsUpper(c) THEN ToLower[c] ELSE c
UpperChar(c) == IF IsLower(c) THEN ToUpper[c] ELSE c

\* str.lower()
Lower(s) == [i \in 1..Len(s) |-> LowerChar(s[i])]

\* str.title(): a letter that follows a non-letter is upper-cased, every other
\* letter lower-cased
Title(s) ==
    [i \in 1..Len(s) |->
        IF i = 1 \/ ~IsLetter(s[i - 1]) THEN UpperChar(s[i]) ELSE LowerChar(s[i])]

IsSpace(c) == c \in {" ", "\n", "\t"}

RECURSIVE LStrip(_)
LStrip(s) == IF s # <<>> /\ IsSpace(Head(s)) THEN LStrip(Tail(s)) ELSE s

RECURSIVE RStrip(_)
RStrip(s) ==
    IF s # <<>> /\ IsSpace(s[Len(s)]) THEN RStrip(SubSeq(s, 1, Len(s) - 1)) ELSE s

\* str.strip()
Strip(s) == RStrip(LStrip(s))

\* `k in s` for strings
Contains(s, k) ==
    \E i \in 1..(Len(s) - Len(k) + 1) : SubSeq(s, i, i + Len(k) - 1) = k

\* any(k in s for k in ks), ks a sequence of strings
ContainsAny(s, ks) == \E j \in 1..Len(ks) : Contains(s, ks[j])

\* s in [..] for a list of strings
MemberOf(s, ks) == \E j \in 1..Len(ks) : ks[j] = s

(***************************************************************************)
(* Number formatting: f"{x:,.2f}" and f"{x:+.2f}".                         *)
(***************************************************************************)
Digit == <<"0","1","2","3","4","5","6","7","8","9">>

RECURSIVE Digits(_)
Digits(n) == IF n < 10 THEN <<Digit[n + 1]>> ELSE Digits(n \div 10) \o <<Digit[(n % 10) + 1]>>

Pad2(n) == <<Digit[(n \div 10) + 1], Digit[(n % 10) + 1]>>
Pad3(n) == <<Digit[(n \div 100) + 1]>> \o Pad2(n % 100)

RECURSIVE Grouped(_)
Grouped(n) ==
    IF n < 1000 THEN Digits(n) ELSE Grouped(n \div 1000) \o <<",">> \o Pad3(n % 1000)

Abs(n) == IF n < 0 THEN -n ELSE n

\* (an amount without its thousands separators)
MoneyUngrouped(cents) ==
    (IF cents < 0 THEN <<"-">> ELSE <<>>)
        \o Digits(Abs(cents) \div 100) \o <<".">> \o Pad2(Abs(cents) % 100)

\* f"{x:,.2f}" of x = cents / 100
Money(cents) ==
    (IF cents < 0 THEN <<"-">> ELSE <<>>)
        \o Grouped(Abs(cents) \div 100) \o <<".">> \o Pad2(Abs(cents) % 100)

\* f"{x:+.2f}" of x = hundredths / 100
SignedFixed2(hundredths) ==
    (IF hundredths < 0 THEN <<"-">> ELSE <<"+">>)
        \o Digits(Abs(hundredths) \div 100) \o <<".">> \o Pad2(Abs(hundredths) % 100)

(***************************************************************************)
(* Words the input texts are built from.                                   *)
(***************************************************************************)
W_help == <<"h","e","l","p">>
W_Commands == <<"C","o","m","m","a","n","d","s">>
W_commands == <<"c","o","m","m","a","n","d","s">>
W_chart == <<"c","h","a","r","t">>
W_graph == <<"g","r","a","p","h">>
W_trend == <<"t","r","e","n","d">>
W_trending == <<"t","r","e","n","d","i","n","g">>
W_history == <<"h","i","s","t","o","r","y">>
W_bitcoin == <<"b","i","t","c","o","i","n">>
W_Bitcoin == <<"B","i","t","c","o","i","n">>
W_ethereum == <<"e","t","h","e","r","e","u","m">>
W_cardano == <<"c","a","r","d","a","n","o">>
W_dogecoin == <<"d","o","g","e","c","o","i","n">>
W_bitcoin_cash == <<"b","i","t","c","o","i","n","-","c","a","s","h">>
W_price == <<"p","r","i","c","e">>
W_how == <<"h","o","w">>
W_much == <<"m","u","c","h">>
W_how_much == <<"h","o","w"," ","m","u","c","h">>
W_value == <<"v","a","l","u","e">>
W_whats == <<"w","h","a","t","'","s">>
W_what_is == <<"w","h","a","t"," ","i","s">>
W_explain == <<"e","x","p","l","a","i","n">>
W_hello == <<"h","e","l","l","o">>
W_sustainable == <<"s","u","s","t","a","i","n","a","b","l","e">>
W_SUSTAINABLE == <<"S","U","S","T","A","I","N","A","B","L","E">>
W_unsustainable == <<"u","n","s","u","s","t","a","i","n","a","b","l","e">>
W_up == <<"u","p">>
W_supply == <<"s","u","p","p","l","y">>
W_profitable == <<"p","r","o","f","i","t","a","b","l","e">>
W_invest == <<"i","n","v","e","s","t">>
W_exit == <<"e","x","i","t">>
W_quit == <<"q","u","i","t">>
W_bye == <<"b","y","e">>
W_Bye == <<"B","y","e">>
W_clear == <<"c","l","e","a","r">>

Space == <<" ">>

\* the three quick-action queries of the Streamlit page
Q_BitcoinPrice ==
    <<"W","h","a","t","'","s"," ","t","h","e"," ","p","r","i","c","e"," ",
      "o","f"," ","B","i","t","c","o","i","n","?">>
Q_AllPrices ==
    <<"S","h","o","w"," ","m","e"," ","a","l","l"," ","c","r","y","p","t","o",
      "c","u","r","r","e","n","c","y"," ","p","r","i","c","e","s">>
Q_Help == W_help

\* the classifier-priority example of the specification
Q_ChartTrend ==
    <<"s","h","o","w"," ","m","e"," ","t","h","e"," ","b","i","t","c","o","i","n",
      " ","c","h","a","r","t"," ","t","r","e","n","d">>

\* all texts of at most n words over the word set ws, single spaces between
RECURSIVE Phrases(_, _)
Phrases(ws, n) ==
    IF n = 0 THEN {<<>>}
    ELSE LET shorter == Phrases(ws, n - 1)
         IN  shorter \cup ws
                \cup {p \o Space \o w : p \in shorter \ {<<>>}, w \in ws}

(***************************************************************************)
(* Calls that may raise: a result is [raised, value].                      *)
(***************************************************************************)
Return(v) == [raised |-> FALSE, value |-> v]
Raise == [raised |-> TRUE, value |-> <<>>]

\* Python's None, and an optional value in general: <<>> or <<v>>
None == <<>>
Some(v) == <<v>>

(***************************************************************************)
(* streamlit_app.py                                                        *)
(***************************************************************************)
\* price_data, in declaration order (a dict iterates in insertion order)
price_data ==
    << [coin |-> W_bitcoin,  price |-> 4350000, change |-> 120,
        symbol |-> "U+20BF", color |-> "#f7931a"],
       [coin |-> W_ethereum, price |-> 325000,  change |-> -50,
        symbol |-> "U+039E", color |-> "#627eea"],
       [coin |-> W_cardano,  price |-> 62,      change |-> 80,
        symbol |-> "U+20B3", color |-> "#0033ad"] >>

\* `coin in price_data`
InPriceData(coin) == \E i \in 1..Len(price_data) : price_data[i].coin = coin

\* price_data.get(coin): None or the entry
PriceDataGet(coin) ==
    IF InPriceData(coin)
    THEN Some(price_data[CHOOSE i \in 1..Len(price_data) : price_data[i].coin = coin])
    ELSE None

\* any(coin in text for coin in price_data)
AnyCoinIn(text) == \E i \in 1..Len(price_data) : Contains(text, price_data[i].coin)

\* (the last stored coin the text holds, instead of the first)
LastCoinIn(text) ==
    IF AnyCoinIn(text)
    THEN LET i == CHOOSE k \in 1..Len(price_data) :
                     /\ Contains(text, price_data[k].coin)
                     /\ \A j \in (k + 1)..Len(price_data) : ~Contains(text, price_data[j].coin)
         IN  Some(price_data[i].coin)
    ELSE None

\* next((coin for coin in price_data if coin in text), None)
FirstCoinIn(text) ==
    IF AnyCoinIn(text)
    THEN LET i == CHOOSE k \in 1..Len(price_data) :
                     /\ Contains(text, price_data[k].coin)
                     /\ \A j \in 1..(k - 1) : ~Contains(text, price_data[j].coin)
         IN  Some(price_data[i].coin)
    ELSE None

NoDataMessage ==
    <<"Sorry, I don't have data for that cryptocurrency. Try asking about Bitcoin, Ethereum, or Cardano.">>

HelpMessage ==
    <<"You can ask questions like:\n- What is Bitcoin?\n- How much is Ethereum?\n- What's the price of Cardano?\n- Show me Bitcoin chart\n\nOr ask general questions about cryptocurrencies and blockchain technology.">>

FallbackMessage == <<"I'm having trouble thinking right now. Try again shortly.">>

WelcomeMessage ==
    <<"Welcome to BitBot! I'm your crypto assistant. Ask me about Bitcoin, Ethereum, or Cardano prices, or any questions about cryptocurrencies.">>

\* format_price(coin, include_chart) of streamlit_app.py
st_format_price(coin, include_chart) ==
    LET got == PriceDataGet(coin) IN
    IF got = None THEN NoDataMessage
    ELSE LET data == got[1]
             change_str == SignedFixed2(data.change) \o <<"%">>
             change_formatted ==
                 IF data.change > 0 THEN <<"U+1F7E2 ">> \o change_str
                                    ELSE <<"U+1F534 ">> \o change_str
             result ==
                 <<"The current price of ">> \o Title(coin) \o <<" ", data.symbol, " is $">>
                     \o Money(data.price) \o <<" (">> \o change_formatted \o <<" in 24h).">>
         IN  IF include_chart
             THEN result \o <<"\n\n*Generating price chart for ">> \o Title(coin) \o <<"...*">>
             ELSE result

\* (a price query that falls back to bitcoin)
handle_price_query_default(query) ==
    LET found == FirstCoinIn(Lower(query)) IN
    IF found # None THEN st_format_price(found[1], FALSE) ELSE st_format_price(W_bitcoin, FALSE)

\* handle_price_query(query)
handle_price_query(query) ==
    LET found == FirstCoinIn(Lower(query)) IN
    IF found # None THEN st_format_price(found[1], FALSE) ELSE NoDataMessage

\* build_prompt(user_input) of streamlit_app.py: the persona preamble, the
\* price snapshot, then the raw user text
st_build_prompt(user_input) ==
    <<"You are BitBot, an expert cryptocurrency assistant ... Current crypto prices:\n    - Bitcoin: $">>
        \o Money(price_data[1].price) \o <<" (">> \o SignedFixed2(price_data[1].change)
        \o <<"%)\n    - Ethereum: $">>
        \o Money(price_data[2].price) \o <<" (">> \o SignedFixed2(price_data[2].change)
        \o <<"%)\n    - Cardano: $">>
        \o Money(price_data[3].price) \o <<" (">> \o SignedFixed2(price_data[3].change)
        \o <<"%)\n    ", "\n\nUser: ">> \o user_input \o <<"\nAssistant:">>

\* What the completion provider does with one request.
\*   text     the provider answers with this text (possibly empty)
\*   nontext  the provider answers with something that has no text
\*            (a None payload, a non-string content)
\*   raise    the client raises (network failure, provider-side error)
\*   timeout  the client's deadline passes, which the client raises as well
Payloads == { <<>>, <<" ">>, <<"o","k">>, <<" ","o","k","\n">> }

\* the provider when the call under way has not asked it anything
NotAsked == [kind |-> "not_asked", payload |-> <<>>]

LlmOutcomes ==
    {[kind |-> "text", payload |-> p] : p \in Payloads}
        \cup {[kind |-> k, payload |-> <<>>] : k \in {"nontext", "raise", "timeout"}}

FailureKinds == {"raise", "timeout"}

\* The body of the try block of either get_llm_response: the provider call,
\* then .strip() on the text of what came back. A failure raises, and so does
\* .strip() (or .generated_text) on something that has no text.
LlmTryBody(o) ==
    IF o.kind \in FailureKinds THEN Raise
    ELSE IF o.kind = "nontext" THEN Raise
    ELSE Return(Strip(o.payload))

\* (the gateway without its except clause)
st_get_llm_response_unguarded(prompt, o) == LlmTryBody(o)

\* get_llm_response(prompt) of streamlit_app.py, under provider outcome o:
\* `except Exception` turns whatever the body raised into the fallback
st_get_llm_response(prompt, o) ==
    LET body == LlmTryBody(o) IN
    IF body.raised THEN Return(FallbackMessage) ELSE body

\* (a chart test that knows only two of the four keywords)
ChartWordsShort == <<W_chart, W_graph>>
ChartWords == <<W_chart, W_graph, W_trend, W_history>>
PricePhrases == <<W_price, W_how_much, W_value>>
HelpWords == <<W_help, W_commands>>

AssistantMessage(content) == [role |-> "assistant", content |-> content]
ChartMessage(content, coin) ==
    [role |-> "assistant", content |-> content,
     extra_data |-> [show_chart |-> TRUE, coin |-> coin]]

\* One gateway call as the router makes it: the log entry and what comes back.
LlmCall(prompt, o, result) == [prompt |-> prompt, outcome |-> o, result |-> result]

\* (an LLM path that asks the gateway a second time)
st_llm_path_twice(user_input, o) ==
    LET prompt == st_build_prompt(user_input)
        got == st_get_llm_response(prompt, o)
    IN  [ret |-> IF got.raised THEN Raise ELSE Return(Some(AssistantMessage(got.value))),
         llm |-> <<LlmCall(prompt, o, got), LlmCall(prompt, o, got)>>]

\* The LLM path of process_message (both of its last two branches)
st_llm_path(user_input, o) ==
    LET prompt == st_build_prompt(user_input)
        got == st_get_llm_response(prompt, o)
    IN  [ret |-> IF got.raised THEN Raise ELSE Return(Some(AssistantMessage(got.value))),
         llm |-> <<LlmCall(prompt, o, got)>>]

\* What a call of process_message does to st.session_state.messages, which it
\* can reach as a global: it holds no statement that touches it.
st_session_after(session) == session

\* process_message(user_input), the provider behaving as o if it is asked.
\* [ret |-> what the call returns or raises, llm |-> the gateway calls made]
process_message(user_input, o) ==
    LET lower == Lower(user_input) IN
    IF user_input = <<>> THEN [ret |-> Return(None), llm |-> <<>>]
    ELSE IF MemberOf(lower, HelpWords)
    THEN [ret |-> Return(Some(AssistantMessage(HelpMessage))), llm |-> <<>>]
    ELSE IF ContainsAny(lower, ChartWords) /\ AnyCoinIn(lower)
    THEN LET requested_coin == FirstCoinIn(lower) IN
         IF requested_coin # None
         THEN [ret |-> Return(Some(ChartMessage(st_format_price(requested_coin[1], TRUE),
                                                requested_coin[1]))),
               llm |-> <<>>]
         ELSE [ret |-> Return(None), llm |-> <<>>]  \* falls off the end of the function
    ELSE IF ContainsAny(lower, PricePhrases) /\ AnyCoinIn(lower)
    THEN LET requested_coin == FirstCoinIn(lower) IN
         IF requested_coin # None
         THEN [ret |-> Return(Some(AssistantMessage(st_format_price(requested_coin[1], FALSE)))),
               llm |-> <<>>]
         ELSE [ret |-> Return(Some(AssistantMessage(handle_price_query(user_input)))),
               llm |-> <<>>]
    ELSE IF Contains(lower, W_what_is) \/ Contains(lower, W_whats) \/ Contains(lower, W_explain)
    THEN st_llm_path(user_input, o)
    ELSE st_llm_path(user_input, o)

\* create_price_chart(coin): None for a coin the store does not hold; otherwise
\* generate_price_history(coin) is called and a chart is built from its frame.
\* [ret |-> the chart or None, history |-> the calls of generate_price_history]
create_price_chart(coin) ==
    IF ~InPriceData(coin)
    THEN [ret |-> None, history |-> <<>>]
    ELSE LET data == PriceDataGet(coin)[1] IN
         [ret |-> Some([title |-> Title(coin) \o <<" ", data.symbol, " Price (30 Days)">>,
                        color |-> data.color]),
          history |-> <<coin>>]

\* `"extra_data" in message and message["extra_data"].get("show_chart", False)`
ShowsChart(message) ==
    "extra_data" \in DOMAIN message /\ message.extra_data.show_chart

\* The display loop of main(), from message i on: for every message flagged
\* show_chart, create_price_chart(coin) is called and the chart is drawn
\* `if chart`. One record per flagged message, in transcript order.
RECURSIVE DisplayFrom(_, _)
DisplayFrom(session, i) ==
    IF i > Len(session) THEN <<>>
    ELSE IF ShowsChart(session[i])
    THEN LET coin == session[i].extra_data.coin
             made == create_price_chart(coin)
         IN  <<[index |-> i, coin |-> coin, chart |-> made.ret,
                history |-> made.history, drawn |-> made.ret # None]>>
                 \o DisplayFrom(session, i + 1)
    ELSE DisplayFrom(session, i + 1)

\* (a page that appends an answer only when its content is not empty)
AppendIfContent(session, ret) ==
    IF ret.value # None /\ ret.value[1].content # <<>>
    THEN Append(session, ret.value[1])
    ELSE session

\* `if response: st.session_state.messages.append(response)`: None is falsy,
\* a message dict is truthy whatever its content
AppendIfResponse(session, ret) ==
    IF ret.value # None THEN Append(session, ret.value[1]) ELSE session

(***************************************************************************)
(* app.py                                                                  *)
(***************************************************************************)
\* crypto_db as the source declares it
CryptoDb ==
    << [name |-> "Bitcoin",  price_trend |-> "rising", market_cap |-> "high",
        energy_use |-> "high",   sustainability_score |-> 3],
       [name |-> "Ethereum", price_trend |-> "stable", market_cap |-> "high",
        energy_use |-> "medium", sustainability_score |-> 6],
       [name |-> "Cardano",  price_trend |-> "rising", market_cap |-> "medium",
        energy_use |-> "low",    sustainability_score |-> 8] >>

\* What the price provider does with one request.
\*   prices      a JSON object holding the coin's usd price (in cents here)
\*   other_json  a non-empty JSON object without the coin (an error body)
\*   empty_json  the JSON object {}
\*   raise       requests.get or response.json() raises
FetchOutcomes ==
    {[kind |-> "prices", usd |-> 4350000],
     [kind |-> "other_json", usd |-> 0], [kind |-> "empty_json", usd |-> 0],
     [kind |-> "raise", usd |-> 0]}

\* get_crypto_data(coin_id) under fetch outcome f. The dict that comes back is
\* [truthy |-> it is non-empty, usd |-> .get(coin, {}).get("usd", 0)]
get_crypto_data(coin_id, f) ==
    IF f.kind = "raise" THEN [truthy |-> FALSE, usd |-> 0]
    ELSE IF f.kind = "empty_json" THEN [truthy |-> FALSE, usd |-> 0]
    ELSE IF f.kind = "other_json" THEN [truthy |-> TRUE, usd |-> 0]
    ELSE [truthy |-> TRUE, usd |-> f.usd]

\* format_price(price) of app.py
app_format_price(price) == <<"$">> \o Money(price)

\* build_prompt(user_input) of app.py
app_build_prompt(user_input) == <<"Q: ">> \o user_input \o <<"\nA:">>

\* get_llm_response(prompt) of app.py, under provider outcome o
app_get_llm_response(prompt, o) ==
    LET body == LlmTryBody(o) IN
    IF body.raised THEN Return(FallbackMessage) ELSE body

\* max(db, key=score): the first element no later element beats strictly
RECURSIVE MaxFrom(_, _, _)
MaxFrom(db, i, best) ==
    IF i > Len(db) THEN best
    ELSE IF db[i].sustainability_score > best.sustainability_score
         THEN MaxFrom(db, i + 1, db[i])
         ELSE MaxFrom(db, i + 1, best)

\* (a maximum that lets a later equal score win)
RECURSIVE MaxFromLast(_, _, _)
MaxFromLast(db, i, best) ==
    IF i > Len(db) THEN best
    ELSE IF db[i].sustainability_score >= best.sustainability_score
         THEN MaxFromLast(db, i + 1, db[i])
         ELSE MaxFromLast(db, i + 1, best)

MaxBySustainabilityLast(db) == MaxFromLast(db, 2, db[1])

MaxBySustainability(db) == MaxFrom(db, 2, db[1])

\* the names of a list of knowledge base entries
Names(entries) == [i \in 1..Len(entries) |-> entries[i].name]

\* sep.join(names)
RECURSIVE Join(_, _)
Join(names, sep) ==
    IF names = <<>> THEN <<>>
    ELSE IF Len(names) = 1 THEN <<names[1]>>
    ELSE <<names[1], sep>> \o Join(Tail(names), sep)

NoHotPicks == <<"No hot picks at the moment. U+1F9D0">>
EcoSuffix == " U+1F331 is one of the most eco-friendly coins!"
TrendPrefix == "These coins are trending up U+1F4C8: "
InvestSuffix == " U+1F680 looks promising for investment!"

\* the price_info suffix respond_to_query computes before it routes
PriceInfo(btc_data, eth_data) ==
    IF btc_data.truthy /\ eth_data.truthy
    THEN <<"\nCurrent prices:\nBitcoin: ">> \o app_format_price(btc_data.usd)
             \o <<"\nEthereum: ">> \o app_format_price(eth_data.usd)
    ELSE <<>>

\* the entry respond_to_query appends to chat_history
HistoryEntry(user_query, reply) ==
    <<"User: ">> \o user_query \o <<"\nAssistant: ">> \o reply

\* (the buffer restarted instead of extended)
HistoryAppendReset(history, entry) == <<entry>>

\* chat_history.append(entry)
HistoryAppend(history, entry) == Append(history, entry)

\* (a third fetch)
PriceFetchesThree == <<W_bitcoin, W_ethereum, W_cardano>>

\* the coins respond_to_query fetches, in call order, whatever the query
PriceFetches == <<W_bitcoin, W_ethereum>>

\* the tests of the if/elif chain, on the lower-cased query
\* (a sustainability test by equality instead of containment)
IsSustainabilityQueryExact(lower) == lower = W_sustainable
IsSustainabilityQuery(lower) == Contains(lower, W_sustainable)
IsTrendQuery(lower) == Contains(lower, W_trending) \/ Contains(lower, W_up)
IsProfitabilityQuery(lower) == Contains(lower, W_profitable) \/ Contains(lower, W_invest)

\* respond_to_query(user_query) on knowledge base db and buffer history, the
\* two price fetches behaving as fb and fe and the completion provider as o.
\* [ret |-> what the call returns or raises, net |-> the price fetches made,
\*  llm |-> the gateway calls made, history |-> chat_history afterwards]
respond_to_query(user_query, db, history, fb, fe, o) ==
    LET lower == Lower(user_query)
        btc_data == get_crypto_data(W_bitcoin, fb)
        eth_data == get_crypto_data(W_ethereum, fe)
        net == PriceFetches
        price_info == PriceInfo(btc_data, eth_data)
        Rising(c) == c.price_trend = "rising"
        RisingHigh(c) == c.price_trend = "rising" /\ c.market_cap = "high"
    IN
    IF IsSustainabilityQuery(lower)
    THEN [ret |-> IF db = <<>> THEN Raise
                  ELSE Return(<<MaxBySustainability(db).name, EcoSuffix>> \o price_info),
          net |-> net, llm |-> <<>>, history |-> history]
    ELSE IF IsTrendQuery(lower)
    THEN [ret |-> Return(<<TrendPrefix>> \o Join(Names(SelectSeq(db, Rising)), ", ") \o price_info),
          net |-> net, llm |-> <<>>, history |-> history]
    ELSE IF IsProfitabilityQuery(lower)
    THEN LET profitable == Names(SelectSeq(db, RisingHigh)) IN
         [ret |-> IF profitable # <<>>
                  THEN Return(<<profitable[1], InvestSuffix>> \o price_info)
                  ELSE Return(NoHotPicks),
          net |-> net, llm |-> <<>>, history |-> history]
    ELSE LET prompt == app_build_prompt(lower)
             got == app_get_llm_response(prompt, o)
         IN  IF got.raised
             THEN [ret |-> Raise, net |-> net, llm |-> <<LlmCall(prompt, o, got)>>,
                   history |-> history]
             ELSE [ret |-> Return(got.value \o price_info), net |-> net,
                   llm |-> <<LlmCall(prompt, o, got)>>,
                   history |-> HistoryAppend(history, HistoryEntry(lower, got.value))]

(***************************************************************************)
(* generate_price_history (streamlit_app.py)                               *)
(***************************************************************************)
\* periods=30 of pd.date_range
HistoryPeriods == 30
\* range(30) of the random walk
HistorySteps == 30

\* volatility, in percent
Volatility(coin) == IF coin = W_bitcoin THEN 2 ELSE IF coin = W_ethereum THEN 3 ELSE 4

\* pd.date_range(end=today, periods=n): n consecutive days, the last one today
DateRange(today, n) == [i \in 1..n |-> today - (n - i)]

\* current_price * (1 - change/100 * 30), change in hundredths of a percent
\* (floor division, split so that no intermediate product leaves 32 bits)
StartPrice(data) ==
    LET f == 10000 - data.change * 30 IN
    (data.price \div 10000) * f + ((data.price % 10000) * f) \div 10000

\* The pseudo-random source: random.normalvariate draws from the module's
\* generator, whose state the program never sets. A draw advances the state
\* and yields a sample, here a whole number of volatilities in -2..2.
RngNext(r) == (5 * r + 3) % 16
RngSample(r) == (r % 5) - 2

\* price * (1 + change), change = k volatilities
WalkStep(price, coin, k) == (price * (100 + k * Volatility(coin))) \div 100

\* (the last point left to the walk)
OverwriteLastSkipped(prices, current_price) == prices

\* prices[-1] = current_price
OverwriteLast(prices, current_price) == [prices EXCEPT ![Len(prices)] = current_price]

NoHist == [coin |-> <<>>, today |-> 0, rng |-> 0, i |-> 0, price |-> 0,
           prices |-> <<>>, dates |-> <<>>]

(***************************************************************************)
(* Inputs.                                                                 *)
(***************************************************************************)
StWords ==
    {W_help, W_Commands, W_chart, W_graph, W_trending, W_history, W_bitcoin, W_Bitcoin,
     W_ethereum, W_cardano, W_dogecoin, W_bitcoin_cash, W_price, W_how, W_much, W_value,
     W_whats, W_explain, W_hello, W_up}

\* direct calls of process_message
Q_PriceChart == W_ethereum \o Space \o W_price \o Space \o W_chart
StInputs ==
    Phrases(StWords, MaxWords) \cup {Q_BitcoinPrice, Q_AllPrices, Q_ChartTrend, Q_PriceChart}

\* what the user may type into st.chat_input (which never submits an empty text)
Q_BitcoinChart == W_bitcoin \o Space \o W_chart
Q_DogecoinPrice == W_dogecoin \o Space \o W_price
Q_TwoCoinChart == W_cardano \o Space \o W_bitcoin \o Space \o W_chart
StChatInputs ==
    {W_hello, W_Commands, Q_BitcoinChart, Q_DogecoinPrice, Q_ChartTrend, Q_TwoCoinChart}

AppWords ==
    {W_sustainable, W_SUSTAINABLE, W_unsustainable, W_trending, W_up, W_supply,
     W_profitable, W_invest, W_bitcoin, W_price, W_hello, W_Bye}

\* direct calls of respond_to_query
AppInputs == Phrases(AppWords, MaxWords)

\* what the user may type at the CLI prompt
CliInputs == {W_hello, W_SUSTAINABLE, W_trending, W_invest, W_exit, W_Bye, <<>>}

\* knowledge bases: the declared coins with any attributes
Trends == {"rising", "stable"}
Caps == {"high", "medium"}
KbEntries(i) ==
    {[name |-> CryptoDb[i].name, price_trend |-> t, market_cap |-> m,
      energy_use |-> CryptoDb[i].energy_use, sustainability_score |-> n] :
        t \in Trends, m \in Caps, n \in 0..MaxScore}
KnowledgeBases == {<<a, b, c>> : a \in KbEntries(1), b \in KbEntries(2), c \in KbEntries(3)}
KbProbes == {W_sustainable, W_trending, W_invest}

\* coin identifiers handed to the price responders
CoinIds ==
    {price_data[i].coin : i \in 1..Len(price_data)}
        \cup {W_dogecoin, W_bitcoin_cash, W_Bitcoin, W_hello, <<>>}

HistCoins == {price_data[i].coin : i \in 1..Len(price_data)} \cup {W_dogecoin}

(***************************************************************************)
(* Initial states: one per entry point and input.                          *)
(***************************************************************************)
NoResponse == Return(None)

InitCommon ==
    /\ response = NoResponse
    /\ llmLog = <<>>
    /\ netLog = <<>>
    /\ chat_history = <<>>
    /\ turns = 0
    /\ rendered = <<>>

\* a test calls process_message(input)
InitProcessMessage ==
    /\ unit = "process_message" /\ pc = "call"
    /\ input \in StInputs
    /\ crypto_db = CryptoDb /\ messages = <<>> /\ hist = NoHist
    /\ InitCommon

\* the Streamlit page after its first run: the transcript holds the welcome
InitStreamlitMain ==
    /\ unit = "streamlit_main" /\ pc = "idle"
    /\ input = <<>>
    /\ crypto_db = CryptoDb
    /\ messages = <<AssistantMessage(WelcomeMessage)>>
    /\ hist = NoHist
    /\ InitCommon

\* a test calls respond_to_query(input), on the declared knowledge base or on
\* another one
InitRespondToQuery ==
    /\ unit = "respond_to_query" /\ pc = "call"
    /\ \/ input \in AppInputs /\ crypto_db = CryptoDb
       \/ input \in KbProbes /\ crypto_db \in KnowledgeBases
    /\ messages = <<>> /\ hist = NoHist
    /\ InitCommon

\* a test calls format_price(input) and handle_price_query(input)
InitPriceResponder ==
    /\ unit = "price_responder" /\ pc = "call"
    /\ input \in CoinIds
    /\ crypto_db = CryptoDb /\ messages = <<>> /\ hist = NoHist
    /\ InitCommon

\* app.py's main() at its first prompt
InitAppMain ==
    /\ unit = "app_main" /\ pc = "prompt"
    /\ input = <<>>
    /\ crypto_db = CryptoDb /\ messages = <<>> /\ hist = NoHist
    /\ InitCommon

\* a call of generate_price_history(coin) on some day, the random source in
\* some state
InitHistory ==
    /\ unit = "generate_price_history" /\ pc = "call"
    /\ input = <<>>
    /\ crypto_db = CryptoDb /\ messages = <<>>
    /\ \E c \in HistCoins, d \in 0..MaxDayOffset, r \in 0..MaxSeed :
          hist = [NoHist EXCEPT !.coin = c, !.today = d, !.rng = r]
    /\ InitCommon

Init ==
    \/ InitProcessMessage
    \/ InitStreamlitMain
    \/ InitRespondToQuery
    \/ InitPriceResponder
    \/ InitAppMain
    \/ InitHistory

(***************************************************************************)
(* Actions.                                                                *)
(***************************************************************************)
\* The completion provider shows a behaviour only to a call that asks it.
ProviderFor(asked) == IF asked THEN LlmOutcomes ELSE {NotAsked}

StAsksLlm(user_input) == process_message(user_input, NotAsked).llm # <<>>

AppAsksLlm(user_query, db) ==
    LET f == [kind |-> "raise", usd |-> 0] IN
    respond_to_query(user_query, db, <<>>, f, f, NotAsked).llm # <<>>

\* process_message(input) runs and returns
CallProcessMessage ==
    /\ unit = "process_message" /\ pc = "call"
    /\ \E o \in ProviderFor(StAsksLlm(input)) :
          LET r == process_message(input, o) IN
          /\ response' = r.ret
          /\ llmLog' = r.llm
          /\ messages' = st_session_after(messages)
    /\ pc' = "returned"
    /\ UNCHANGED <<unit, input, netLog, crypto_db, chat_history, turns, hist, rendered>>

\* A quick-action button or the chat input fires: the handler appends the
\* user message and calls process_message
StSubmit(query) ==
    /\ unit = "streamlit_main" /\ pc = "idle" /\ turns < MaxTurns
    /\ input' = query
    /\ messages' = Append(messages, [role |-> "user", content |-> query])
    /\ turns' = turns + 1
    /\ pc' = "routing"
    /\ UNCHANGED <<unit, response, llmLog, netLog, crypto_db, chat_history, hist, rendered>>

StButtonBitcoinPrice == StSubmit(Q_BitcoinPrice)
StButtonAllPrices == StSubmit(Q_AllPrices)
StButtonHelp == StSubmit(Q_Help)
StChatInput == \E prompt \in StChatInputs : StSubmit(prompt)

\* process_message(query) runs inside the handler
StRoute ==
    /\ unit = "streamlit_main" /\ pc = "routing"
    /\ \E o \in ProviderFor(StAsksLlm(input)) :
          LET r == process_message(input, o) IN
          /\ response' = r.ret
          /\ llmLog' = r.llm
          /\ messages' = st_session_after(messages)
    /\ pc' = "routed"
    /\ UNCHANGED <<unit, input, netLog, crypto_db, chat_history, turns, hist, rendered>>

\* `if response: st.session_state.messages.append(response)`, then the page
\* runs again
StAppendResponse ==
    /\ unit = "streamlit_main" /\ pc = "routed"
    /\ messages' = IF ~response.raised
                   THEN AppendIfResponse(messages, response)
                   ELSE messages
    /\ pc' = IF response.raised THEN "crashed" ELSE "idle"
    /\ UNCHANGED <<unit, input, response, llmLog, netLog, crypto_db, chat_history,
                   turns, hist, rendered>>

\* a run of the page without an event: the display loop draws the transcript
StDisplay ==
    /\ unit = "streamlit_main" /\ pc = "idle"
    /\ rendered' = DisplayFrom(messages, 1)
    /\ UNCHANGED <<unit, pc, input, response, llmLog, netLog, crypto_db, chat_history,
                   messages, turns, hist>>

\* format_price(input) and handle_price_query(input) run and return
CallPriceResponder ==
    /\ unit = "price_responder" /\ pc = "call"
    /\ response' = Return([format_price |-> st_format_price(input, FALSE),
                           handle_price_query |-> handle_price_query(input)])
    /\ pc' = "returned"
    /\ UNCHANGED <<unit, input, llmLog, netLog, crypto_db, chat_history, messages,
                   turns, hist, rendered>>

\* respond_to_query(input) runs and returns
CallRespondToQuery ==
    /\ unit = "respond_to_query" /\ pc = "call"
    /\ \E fb \in FetchOutcomes, fe \in FetchOutcomes,
          o \in ProviderFor(AppAsksLlm(input, crypto_db)) :
          LET r == respond_to_query(input, crypto_db, chat_history, fb, fe, o) IN
          /\ response' = r.ret
          /\ llmLog' = r.llm
          /\ netLog' = r.net
          /\ chat_history' = r.history
    /\ pc' = "returned"
    /\ UNCHANGED <<unit, input, crypto_db, messages, turns, hist, rendered>>

ExitWords == <<W_exit, W_quit, W_bye>>

\* main() of app.py reads an exit word and leaves the loop
CliExit ==
    /\ unit = "app_main" /\ pc = "prompt"
    /\ \E user_input \in CliInputs :
          /\ MemberOf(Lower(user_input), ExitWords)
          /\ input' = user_input
    /\ pc' = "exited"
    /\ UNCHANGED <<unit, response, llmLog, netLog, crypto_db, chat_history, messages,
                   turns, hist, rendered>>

\* main() of app.py reads anything else, answers it with respond_to_query and
\* prompts again
CliTurn ==
    /\ unit = "app_main" /\ pc = "prompt" /\ turns < MaxTurns
    /\ \E user_input \in CliInputs, fb \in FetchOutcomes, fe \in FetchOutcomes :
       \E o \in ProviderFor(AppAsksLlm(user_input, crypto_db)) :
          LET r == respond_to_query(user_input, crypto_db, chat_history, fb, fe, o) IN
          /\ ~MemberOf(Lower(user_input), ExitWords)
          /\ input' = user_input
          /\ response' = r.ret
          /\ llmLog' = r.llm
          /\ netLog' = r.net
          /\ chat_history' = r.history
          /\ pc' = IF r.ret.raised THEN "crashed" ELSE "prompt"
    /\ turns' = turns + 1
    /\ UNCHANGED <<unit, crypto_db, messages, hist, rendered>>

\* generate_price_history: the lines before the loop. price_data[coin] raises
\* KeyError for a coin the store does not hold
HistEnter ==
    /\ unit = "generate_price_history" /\ pc = "call"
    /\ IF InPriceData(hist.coin)
       THEN /\ hist' = [hist EXCEPT !.dates = DateRange(hist.today, HistoryPeriods),
                                    !.price = StartPrice(PriceDataGet(hist.coin)[1]),
                                    !.prices = <<>>, !.i = 0]
            /\ pc' = "loop"
       ELSE /\ hist' = hist
            /\ pc' = "raised"
    /\ UNCHANGED <<unit, input, response, llmLog, netLog, crypto_db, chat_history,
                   messages, turns, rendered>>

\* one iteration of the random walk
HistStep ==
    /\ unit = "generate_price_history" /\ pc = "loop" /\ hist.i < HistorySteps
    /\ LET r == RngNext(hist.rng)
           price == WalkStep(hist.price, hist.coin, RngSample(r))
       IN  hist' = [hist EXCEPT !.rng = r, !.price = price,
                                !.prices = Append(hist.prices, price), !.i = hist.i + 1]
    /\ UNCHANGED <<unit, pc, input, response, llmLog, netLog, crypto_db, chat_history,
                   messages, turns, rendered>>

\* after the loop: the last price is overwritten and the frame returned
HistReturn ==
    /\ unit = "generate_price_history" /\ pc = "loop" /\ hist.i = HistorySteps
    /\ hist' = [hist EXCEPT
                   !.prices = OverwriteLast(hist.prices,
                                            PriceDataGet(hist.coin)[1].price)]
    /\ pc' = IF Len(hist.dates) = Len(hist.prices) THEN "returned" ELSE "raised"
    /\ UNCHANGED <<unit, input, response, llmLog, netLog, crypto_db, chat_history,
                   messages, turns, rendered>>

Next ==
    \/ CallProcessMessage
    \/ StButtonBitcoinPrice
    \/ StButtonAllPrices
    \/ StButtonHelp
    \/ StChatInput
    \/ StRoute
    \/ StAppendResponse
    \/ StDisplay
    \/ CallRespondToQuery
    \/ CallPriceResponder
    \/ CliExit
    \/ CliTurn
    \/ HistEnter
    \/ HistStep
    \/ HistReturn

Spec == Init /\ [][Next]_vars

(***************************************************************************)
(* The claims.  Their vocabulary is stated here on its own, apart from    *)
(* the definitions that model the code.                                    *)
(***************************************************************************)
Fold(text) == Lower(text)
HasAny(text, keys) == \E k \in keys : Contains(Fold(text), k)

ClaimChartKeywords == {W_chart, W_graph, W_trend, W_history}
ClaimPriceKeywords == {W_price, W_how_much, W_value}
ClaimCoinNames == {W_bitcoin, W_ethereum, W_cardano}
ClaimLaterKeywords ==
    {W_sustainable, W_trending, W_up, W_profitable, W_invest} \cup ClaimPriceKeywords

\* the steps of the priority order that come before the chart step:
\* greeting, exit, help (by equality) and clear (by containment)
ClaimEarlierStep(text) ==
    \/ Fold(text) \in {W_hello, W_exit, W_quit, W_bye, W_help, W_commands}
    \/ Contains(Fold(text), W_clear)

\* process_message has just returned (called directly, or by a page handler)
Routed ==
    \/ unit = "process_message" /\ pc = "returned"
    \/ unit = "streamlit_main" /\ pc = "routed"

IsMessage(r) == ~r.raised /\ r.value # None
IsChartAnswer(r) ==
    /\ IsMessage(r)
    /\ "extra_data" \in DOMAIN r.value[1]
    /\ r.value[1].extra_data.show_chart
    /\ r.value[1].extra_data.coin \in ClaimCoinNames

\* C1: a text with a chart keyword and a known coin name, that no earlier
\* step of the priority order matches, is answered by the chart responder (a
\* message flagged show_chart for a coin) and by nothing else, whatever
\* keywords of later intents it also holds.
C1_ChartFirst ==
    (Routed /\ HasAny(input, ClaimChartKeywords) /\ HasAny(input, ClaimCoinNames)
        /\ ~ClaimEarlierStep(input))
    => (IsChartAnswer(response) /\ llmLog = <<>>)

\* a chart answer to a text that also asks for a price
C1_Witness ==
    /\ Routed /\ input = Q_PriceChart
    /\ HasAny(input, ClaimLaterKeywords)
    /\ IsChartAnswer(response) /\ response.value[1].extra_data.coin = W_ethereum

\* respond_to_query has just returned (called directly, or by the CLI loop)
AppReturned ==
    \/ unit = "respond_to_query" /\ pc = "returned"
    \/ unit = "app_main" /\ pc = "prompt" /\ turns > 0

AsksSustainable(text) == Contains(Fold(text), W_sustainable)

\* the name of the first entry, in declaration order, that holds the greatest
\* sustainability score
ClaimBestName(db) ==
    db[CHOOSE i \in 1..Len(db) :
          /\ \A j \in 1..Len(db) : db[j].sustainability_score <= db[i].sustainability_score
          /\ \A j \in 1..(i - 1) : db[j].sustainability_score < db[i].sustainability_score].name

DbNames(db) == {db[i].name : i \in 1..Len(db)}

\* C2 as claimed: a text that holds "sustainable", in any letter case and among
\* any other words, gets the sustainability endorsement and nothing else.
C2_EndorsementOnly ==
    (AppReturned /\ AsksSustainable(input))
    => /\ ~response.raised
       /\ Len(response.value) = 2
       /\ response.value[1] \in DbNames(crypto_db)
       /\ response.value[2] = EcoSuffix

\* C2 amended: such a text is always answered by the sustainability responder,
\* without a call of the language model and without a chat_history entry; the
\* endorsement comes first and is followed by the current-prices block whenever
\* both price fetches came back with a non-empty object.
C2_EndorsementThenPrices ==
    (AppReturned /\ AsksSustainable(input))
    => /\ ~response.raised
       /\ Len(response.value) >= 2
       /\ response.value[1] \in DbNames(crypto_db)
       /\ response.value[2] = EcoSuffix
       /\ Len(response.value) > 2 => response.value[3] = "\nCurrent prices:\nBitcoin: "
       /\ llmLog = <<>>
       /\ unit = "respond_to_query" => chat_history = <<>>

\* upper case, a keyword of a later intent beside it, and the prices appended
C2_Witness ==
    /\ AppReturned /\ input = W_SUSTAINABLE \o Space \o W_up
    /\ response.value[2] = EcoSuffix
    /\ Len(response.value) > 2

\* C3: whenever the completion provider fails (it raises, it times out, or it
\* answers with an empty text) the gateway, in both variants, returns the
\* fallback text and raises nothing.
C3_FallbackOnEveryFailure ==
    \A i \in 1..Len(llmLog) :
        LET call == llmLog[i] IN
        (\/ call.outcome.kind \in {"raise", "timeout"}
         \/ call.outcome.kind = "text" /\ call.outcome.payload = <<>>)
        => call.result = Return(FallbackMessage)

\* C4 as claimed: process_message returns a message for every input, the
\* empty string included, and never raises.
C4_AlwaysMessage == Routed => IsMessage(response)

\* C4 amended: process_message never raises; for every non-empty input it
\* returns an assistant message with a content, whatever the completion
\* provider does, and for the empty input it returns None.
C4_MessageUnlessEmpty ==
    Routed =>
        /\ ~response.raised
        /\ input # <<>> =>
              /\ response.value # None
              /\ response.value[1].role = "assistant"
              /\ "content" \in DOMAIN response.value[1]
        /\ input = <<>> => response.value = None

\* a message although the provider raised
C4_Witness ==
    /\ Routed /\ input # <<>>
    /\ llmLog # <<>> /\ llmLog[1].outcome.kind = "raise"
    /\ IsMessage(response) /\ response.value[1].content = FallbackMessage

\* C5 as claimed: one call of respond_to_query makes at most one outbound call.
C5_AtMostOneCall == AppReturned => Len(netLog) + Len(llmLog) <= 1

\* C5 amended: one call of respond_to_query makes exactly two price fetches
\* (bitcoin, then ethereum) and at most one completion request, so two or three
\* outbound calls.
C5_TwoFetchesOneCompletion ==
    AppReturned =>
        /\ netLog = <<W_bitcoin, W_ethereum>>
        /\ Len(llmLog) <= 1

\* a call that made three outbound calls
C5_Witness == AppReturned /\ Len(netLog) + Len(llmLog) = 3

RoutingStep ==
    \/ unit = "process_message" /\ pc = "call"
    \/ unit = "streamlit_main" /\ pc = "routing"

\* a step that is one call of respond_to_query
AppCallStep ==
    \/ unit = "respond_to_query" /\ pc = "call"
    \/ unit = "app_main" /\ pc = "prompt" /\ turns' = turns + 1

ClaimBeforePrice(text) ==
    \/ ClaimEarlierStep(text)
    \/ HasAny(text, ClaimChartKeywords) /\ HasAny(text, ClaimCoinNames)
    \/ HasAny(text, {W_sustainable, W_trending, W_up, W_profitable, W_invest})

\* C7: a text that asks for a price and names no known coin is answered with
\* the fixed "don't have data" message, and the language model is not asked.
C7_NoDataWithoutCoin ==
    (Routed /\ HasAny(input, ClaimPriceKeywords) /\ ~HasAny(input, ClaimCoinNames)
        /\ ~ClaimBeforePrice(input))
    => (IsMessage(response) /\ response.value[1].content = NoDataMessage /\ llmLog = <<>>)

HistoryReturned == unit = "generate_price_history" /\ pc = "returned"

\* C8: for every coin of the price store and every run of the random source,
\* generate_price_history returns 30 points on 30 consecutive ascending days,
\* the last one today, and the last price is the coin's current price.
C8_SeriesEndsAtCurrentPrice ==
    /\ HistoryReturned =>
          /\ Len(hist.dates) = 30 /\ Len(hist.prices) = 30
          /\ \A i \in 1..29 : hist.dates[i + 1] = hist.dates[i] + 1
          /\ hist.dates[30] = hist.today
          /\ hist.prices[30] = PriceDataGet(hist.coin)[1].price
    /\ (unit = "generate_price_history" /\ pc = "raised") => hist.coin \notin ClaimCoinNames

\* a returned series whose walk was not already at the current price
C8_Witness ==
    /\ HistoryReturned /\ hist.coin = W_cardano
    /\ hist.prices[29] # hist.prices[30]

PriceResponderReturned == unit = "price_responder" /\ pc = "returned"

\* C9 as claimed: for a coin identifier the price store does not hold (in any
\* letter case), format_price and handle_price_query both return the fixed
\* "don't have data" message.
C9_NoDataForAbsentCoin ==
    (PriceResponderReturned /\ Fold(input) \notin ClaimCoinNames)
    => /\ ~response.raised
       /\ response.value.format_price = NoDataMessage
       /\ response.value.handle_price_query = NoDataMessage

\* C9 amended: neither raises; format_price returns the fixed message for every
\* identifier that is not a key of the store, and handle_price_query returns it
\* exactly when the lower-cased text holds no stored coin name ("bitcoin-cash"
\* holds one and gets Bitcoin's price).
C9_NoDataUnlessNameInside ==
    (PriceResponderReturned /\ input \notin ClaimCoinNames)
    => /\ ~response.raised
       /\ response.value.format_price = NoDataMessage
       /\ (response.value.handle_price_query = NoDataMessage)
             <=> ~HasAny(input, ClaimCoinNames)

\* dogecoin gets the fixed message from both
C9_Witness ==
    /\ PriceResponderReturned /\ input = W_dogecoin
    /\ response.value.format_price = NoDataMessage
    /\ response.value.handle_price_query = NoDataMessage

\* C10: on every knowledge base the sustainability responder names the coin
\* with the greatest sustainability_score, the first declared among equals.
C10_FirstMaximum ==
    (AppReturned /\ AsksSustainable(input))
    => (~response.raised /\ response.value[1] = ClaimBestName(crypto_db))

\* the first and the last coin share the greatest score and the first is named
C10_Witness ==
    /\ AppReturned /\ AsksSustainable(input)
    /\ crypto_db[1].sustainability_score = crypto_db[3].sustainability_score
    /\ crypto_db[2].sustainability_score < crypto_db[1].sustainability_score
    /\ response.value[1] = crypto_db[1].name

AsksTrend(text) ==
    (Contains(Fold(text), W_trending) \/ Contains(Fold(text), W_up))
    /\ ~AsksSustainable(text)

\* the names of the entries whose price_trend is rising, in declaration order
ClaimRisingNames(db) ==
    LET IsRising(c) == c.price_trend = "rising" IN
    [i \in 1..Len(SelectSeq(db, IsRising)) |-> SelectSeq(db, IsRising)[i].name]

\* the answer lists exactly these names, in this order, separated by ", ",
\* after the list template and before the current-prices block (if any)
ListsExactly(value, names) ==
    LET n == Len(names)
        last == IF n = 0 THEN 1 ELSE 2 * n
    IN
    /\ Len(value) >= last
    /\ value[1] = TrendPrefix
    /\ \A k \in 1..n : value[2 * k] = names[k]
    /\ \A k \in 1..(n - 1) : value[2 * k + 1] = ", "
    /\ Len(value) > last => value[last + 1] = "\nCurrent prices:\nBitcoin: "

\* C11: on every knowledge base the trend responder lists exactly the coins
\* whose price_trend is rising, in declaration order, and when no coin is
\* rising it answers with a message of its own ("nothing trending") instead
\* of the list template.
C11_RisingListOrNothingTrending ==
    (AppReturned /\ AsksTrend(input))
    => /\ ~response.raised
       /\ llmLog = <<>>
       /\ IF ClaimRisingNames(crypto_db) = <<>>
          THEN response.value[1] # TrendPrefix
          ELSE ListsExactly(response.value, ClaimRisingNames(crypto_db))

\* the list part alone, which holds on every knowledge base
C11_ListPart ==
    (AppReturned /\ AsksTrend(input))
    => (~response.raised /\ ListsExactly(response.value, ClaimRisingNames(crypto_db)))

\* the text a sequence of emitted pieces spells
RECURSIVE TextOf(_)
TextOf(pieces) == IF pieces = <<>> THEN "" ELSE Head(pieces) \o TextOf(Tail(pieces))

\* the price responder has answered for bitcoin: format_price("bitcoin") was
\* called directly, or process_message routed the page's bitcoin price query
BitcoinPriceAnswer ==
    IF PriceResponderReturned /\ input = W_bitcoin
    THEN Some(response.value.format_price)
    ELSE IF Routed /\ input = Q_BitcoinPrice /\ IsMessage(response)
    THEN Some(response.value[1].content)
    ELSE None

StRuleMatched(text) ==
    \/ Fold(text) \in {W_help, W_commands}
    \/ HasAny(text, ClaimChartKeywords) /\ HasAny(text, ClaimCoinNames)
    \/ HasAny(text, ClaimPriceKeywords) /\ HasAny(text, ClaimCoinNames)

\* the inputs a rule of the CLI router matches
AppRuleMatched(text) ==
    HasAny(text, {W_sustainable, W_trending, W_up, W_profitable, W_invest})

\* the text starts with these pieces
StartsWith(text, pieces) ==
    Len(text) >= Len(pieces) /\ SubSeq(text, 1, Len(pieces)) = pieces

InSession == unit = "streamlit_main"
ClaimWelcome == [role |-> "assistant", content |-> WelcomeMessage]
RoleAt(i) == IF i % 2 = 0 THEN "user" ELSE "assistant"

\* the transcript starts with the welcome message, then alternates user,
\* assistant
Alternates(session) ==
    /\ Len(session) >= 1
    /\ session[1] = ClaimWelcome
    /\ \A i \in 2..Len(session) : session[i].role = RoleAt(i)

\* C14: in the Streamlit session the transcript starts with the assistant
\* welcome message and then alternates user, assistant: between two turns it
\* ends with an assistant message, inside a turn the one user message still
\* waits for its one answer; and no step removes or rewrites a message.
C14_WelcomeThenAlternating ==
    /\ [](InSession =>
            /\ Alternates(messages)
            /\ pc = "idle" => Len(messages) = 2 * turns + 1
            /\ pc \in {"routing", "routed"} =>
                  /\ Len(messages) = 2 * turns
                  /\ messages[Len(messages)] = [role |-> "user", content |-> input]
            /\ pc \in {"idle", "routing", "routed"})
    /\ [][InSession =>
            /\ Len(messages') >= Len(messages)
            /\ SubSeq(messages', 1, Len(messages)) = messages]_vars

\* two turns, a quick action and a chat input; the second answer is the
\* language model's empty text, appended all the same
C14_Witness ==
    /\ InSession /\ pc = "idle" /\ Len(messages) = 5
    /\ messages[2].content = Q_Help
    /\ messages[4].content = W_hello
    /\ messages[5] = [role |-> "assistant", content |-> <<>>]

ClaimCoinOrder == <<W_bitcoin, W_ethereum, W_cardano>>

\* the first coin, in the store's declaration order, whose name the text holds
ClaimFirstCoin(text) ==
    ClaimCoinOrder[CHOOSE k \in 1..3 :
        /\ Contains(Fold(text), ClaimCoinOrder[k])
        /\ \A j \in 1..(k - 1) : ~Contains(Fold(text), ClaimCoinOrder[j])]

Flagged(message) == "extra_data" \in DOMAIN message /\ message.extra_data.show_chart

\* C15: every transcript message flagged show_chart names a coin of the price
\* store, the first one in declaration order whose name the user text before
\* it holds; so every display pass calls generate_price_history with that
\* stored coin only, and create_price_chart returns a chart, never None, for
\* every flagged message.
C15_ChartCoinKnown ==
    InSession =>
        /\ \A i \in 1..Len(messages) :
              Flagged(messages[i]) =>
                 /\ i > 1
                 /\ messages[i - 1].role = "user"
                 /\ HasAny(messages[i - 1].content, ClaimCoinNames)
                 /\ messages[i].extra_data.coin = ClaimFirstCoin(messages[i - 1].content)
        /\ \A k \in 1..Len(rendered) :
              /\ rendered[k].coin \in ClaimCoinNames
              /\ rendered[k].chart # None
              /\ rendered[k].drawn
              /\ rendered[k].history = <<rendered[k].coin>>
              /\ rendered[k].index \in 1..Len(messages)
              /\ Flagged(messages[rendered[k].index])
              /\ messages[rendered[k].index].extra_data.coin = rendered[k].coin

\* a chart answer to a text that names cardano before bitcoin has been drawn,
\* for bitcoin
C15_Witness ==
    /\ InSession /\ pc = "idle" /\ Len(messages) >= 3
    /\ messages[2].content = Q_TwoCoinChart
    /\ Flagged(messages[3]) /\ messages[3].extra_data.coin = W_bitcoin
    /\ rendered # <<>> /\ rendered[1].index = 3 /\ rendered[1].drawn

====
